---- MODULE Spec2Model ----
(***************************************************************************)
(* Binary trees of src/tree.py (Python 2): the node class BinaryTree, its  *)
(* lazily growing subclass AutoBinaryTree, and the builder gen_tree.       *)
(*                                                                         *)
(* Objects live in a heap: heap[n] is the object with identity n, and a    *)
(* child slot holds an identity or None.  A method is an operator on the   *)
(* heap; one that reads a child through a property, which may store into   *)
(* the object, returns the heap it leaves behind with its result.          *)
(*                                                                         *)
(* Next to some operators stands a variant with one slip in it (named      *)
(* after the operator and the slip): the properties below are also checked *)
(* to fail when the variant takes the operator's place.                    *)
(***************************************************************************)
EXTENDS Integers, Sequences, FiniteSets, TLC

VARIABLES heap, call

vars == <<heap, call>>

(***************************************************************************)
(* Bounds of the model.                                                    *)
(***************************************************************************)
\* Objects a session creates through constructors and child accesses.
MaxNodes == 4
\* Largest depth handed to gen_tree.
MaxDepth == 3
\* Longest caller-supplied value sequence (besides the docstring's example).
MaxLen == 2

\* The smallest depth handed to gen_tree (depth <= 0 builds nothing).
MinDepth == 0 - 1

\* Python's None.
None == 0

\* Node values a caller passes to a constructor or to gen_tree.
Values == {1, 2}

\* The defaults of randint(begin=1, end=100).
begin == 1
end == 100

(***************************************************************************)
(* randint: random.randrange(begin, end) returns any integer of            *)
(* begin .. end-1.  The draws explored are the two ends of that range.     *)
(***************************************************************************)
randint(b, e) == {v \in b..(e - 1) : v = b \/ v = e - 1}

(***************************************************************************)
(* The interpreter's recursion limit, in nested __contains__ calls: more   *)
(* than the search of any tree a session stores needs, and finite.         *)
(***************************************************************************)
RecursionLimit == MaxNodes - 1

(***************************************************************************)
(* BinaryTree.__init__ : the three fields are stored verbatim.  cls is the *)
(* object's class.                                                         *)
(***************************************************************************)
BinaryTree(cls, value, left, right) ==
    [cls |-> cls, value |-> value, left |-> left, right |-> right]

Classes == {"BinaryTree", "AutoBinaryTree"}

Nodes(h) == 1..Len(h)

\* A new object gets the next identity.
NewId(h) == Len(h) + 1

(***************************************************************************)
(* is_leaf : not self._left and not self._right.  A BinaryTree defines     *)
(* neither __nonzero__ nor __len__, so an object is true and only None is  *)
(* false.                                                                  *)
(***************************************************************************)
is_leaf(h, self) == (h[self].left = None) /\ (h[self].right = None)

(***************************************************************************)
(* __eq__, and the comparison x == y of two stored child slots that its    *)
(* last line makes: None == None is true, None == node falls to the        *)
(* reflected node.__eq__(None), node == y is node.__eq__(y).  Only the     *)
(* stored fields are read.                                                 *)
(***************************************************************************)
\* Variant: the children are not compared.
__eq__ValueOnly(h, self, other) ==
    IF self = other THEN TRUE
    ELSE IF other = None THEN FALSE
    ELSE h[self].value = h[other].value

\* Variant: the right subtrees are not compared.
RECURSIVE __eq__NoRight(_, _, _)
__eq__NoRight(h, self, other) ==
    IF self = other THEN TRUE
    ELSE IF self = None \/ other = None THEN FALSE
    ELSE IF h[self].value # h[other].value THEN FALSE
    ELSE IF is_leaf(h, self) # is_leaf(h, other) THEN FALSE
    ELSE __eq__NoRight(h, h[self].left, h[other].left)

RECURSIVE __eq__(_, _, _)
RECURSIVE slot_eq(_, _, _)

slot_eq(h, x, y) ==
    IF x = None
    THEN (IF y = None THEN TRUE ELSE __eq__(h, y, x))
    ELSE __eq__(h, x, y)

__eq__(h, self, other) ==
    IF self = other THEN TRUE
    ELSE IF other = None THEN FALSE
    ELSE IF h[self].value # h[other].value THEN FALSE
    ELSE IF is_leaf(h, self) # is_leaf(h, other) THEN FALSE
    ELSE slot_eq(h, h[self].left, h[other].left)
         /\ slot_eq(h, h[self].right, h[other].right)

(***************************************************************************)
(* The properties left and right.  Each returns                            *)
(*   [raised, node, heap] : the exception raised ("" for none), the child  *)
(*   returned, and the heap afterwards.                                    *)
(* v is the value randint() returns if the access calls it.                *)
(***************************************************************************)
Returned(n, h) == [raised |-> "", node |-> n, heap |-> h]

Raised(exc, h) == [raised |-> exc, node |-> None, heap |-> h]

\* BinaryTree.left / BinaryTree.right
BinaryTree_left(h, self) ==
    IF h[self].left = None THEN Raised("Null", h) ELSE Returned(h[self].left, h)

BinaryTree_right(h, self) ==
    IF h[self].right = None THEN Raised("Null", h) ELSE Returned(h[self].right, h)

\* AutoBinaryTree.left / AutoBinaryTree.right
\* Variant: the new child is returned but not stored.
AutoBinaryTree_leftNoCache(h, self, v) ==
    IF h[self].left = None
    THEN Returned(NewId(h), Append(h, BinaryTree(h[self].cls, v, None, None)))
    ELSE Returned(h[self].left, h)

AutoBinaryTree_left(h, self, v) ==
    IF h[self].left = None
    THEN Returned(NewId(h),
                  Append([h EXCEPT ![self].left = NewId(h)],
                         BinaryTree(h[self].cls, v, None, None)))
    ELSE Returned(h[self].left, h)

AutoBinaryTree_right(h, self, v) ==
    IF h[self].right = None
    THEN Returned(NewId(h),
                  Append([h EXCEPT ![self].right = NewId(h)],
                         BinaryTree(h[self].cls, v, None, None)))
    ELSE Returned(h[self].right, h)

\* self.left and self.right, dispatched on the class of self.
\* Variant: the growing property sits in the base class.
leftOfAnyClassGrows(h, self, v) == AutoBinaryTree_left(h, self, v)

left(h, self, v) ==
    IF h[self].cls = "AutoBinaryTree"
    THEN AutoBinaryTree_left(h, self, v)
    ELSE BinaryTree_left(h, self)

right(h, self, v) ==
    IF h[self].cls = "AutoBinaryTree"
    THEN AutoBinaryTree_right(h, self, v)
    ELSE BinaryTree_right(h, self)

(***************************************************************************)
(* __contains__ : `other in self`.  Reading self.left / self.right goes    *)
(* through the property of self's class; only Null is caught.  depth       *)
(* counts the nested __contains__ calls, and a call beyond RecursionLimit  *)
(* raises RuntimeError ("maximum recursion depth exceeded"), which no      *)
(* handler here catches.                                                   *)
(*                                                                         *)
(* A property may call randint(), so the call has a set of outcomes, one   *)
(* for every value randint() can return where it is called: the operator   *)
(* is that set, of records [raised, res, heap].                            *)
(***************************************************************************)
Answer(b, h) == [raised |-> "", res |-> b, heap |-> h]

Failure(exc, h) == [raised |-> exc, res |-> FALSE, heap |-> h]

RECURSIVE __contains__(_, _, _, _)

\* Variant: the second try block searches self.left again.
__contains__LeftTwice(h, self, other, depth) ==
    IF depth > RecursionLimit THEN {Failure("RuntimeError", h)}
    ELSE IF __eq__(h, other, self) THEN {Answer(TRUE, h)}
    ELSE
        LET InLeft(h1) ==
                UNION {IF l.raised = "Null" THEN {Answer(FALSE, l.heap)}
                       ELSE __contains__(l.heap, l.node, other, depth + 1)
                       : l \in {left(h1, self, v) : v \in randint(begin, end)}}
        IN  UNION {IF isin.raised # "" \/ isin.res THEN {isin}
                   ELSE InLeft(isin.heap) : isin \in InLeft(h)}

__contains__(h, self, other, depth) ==
    IF depth > RecursionLimit THEN {Failure("RuntimeError", h)}
    ELSE IF __eq__(h, other, self) THEN {Answer(TRUE, h)}
    ELSE
        LET \* isin = other in self.left, False on Null
            InLeft ==
                UNION {IF l.raised = "Null" THEN {Answer(FALSE, l.heap)}
                       ELSE __contains__(l.heap, l.node, other, depth + 1)
                       : l \in {left(h, self, v) : v \in randint(begin, end)}}
            \* if not isin: isin = other in self.right, False on Null
            InRight(h1) ==
                UNION {IF r.raised = "Null" THEN {Answer(FALSE, r.heap)}
                       ELSE __contains__(r.heap, r.node, other, depth + 1)
                       : r \in {right(h1, self, v) : v \in randint(begin, end)}}
        IN  UNION {IF isin.raised # "" \/ isin.res THEN {isin}
                   ELSE InRight(isin.heap) : isin \in InLeft}

(***************************************************************************)
(* __iter__ as dict() consumes it: dict(self) is the mapping of the pairs  *)
(* yielded.  It returns [map, heap].  A child is read through the property *)
(* (self.left), but only after the stored slot was found not to be None.   *)
(***************************************************************************)
RECURSIVE __iter__(_, _, _)

\* Variant: an absent child is yielded with the value None.
__iter__NoneForAbsent(h, self, v) ==
    LET m0   == "value" :> h[self].value
        hasL == h[self].left # None
        l    == left(h, self, v)
        dl   == __iter__(l.heap, l.node, v)
        h1   == IF hasL THEN dl.heap ELSE h
        m1   == m0 @@ ("left" :> IF hasL THEN dl.map ELSE None)
        hasR == h1[self].right # None
        r    == right(h1, self, v)
        dr   == __iter__(r.heap, r.node, v)
        h2   == IF hasR THEN dr.heap ELSE h1
        m2   == m1 @@ ("right" :> IF hasR THEN dr.map ELSE None)
    IN  [map |-> m2, heap |-> h2]

__iter__(h, self, v) ==
    LET m0   == "value" :> h[self].value
        hasL == h[self].left # None
        l    == left(h, self, v)
        dl   == __iter__(l.heap, l.node, v)
        h1   == IF hasL THEN dl.heap ELSE h
        m1   == IF hasL THEN m0 @@ ("left" :> dl.map) ELSE m0
        hasR == h1[self].right # None
        r    == right(h1, self, v)
        dr   == __iter__(r.heap, r.node, v)
        h2   == IF hasR THEN dr.heap ELSE h1
        m2   == IF hasR THEN m1 @@ ("right" :> dr.map) ELSE m1
    IN  [map |-> m2, heap |-> h2]

(***************************************************************************)
(* The trees a caller can construct with n constructor calls, none of them *)
(* passed to two parents.  Arguments are constructed before the node that  *)
(* takes them, the left one first, so a tree occupies n consecutive        *)
(* identities with its root last.  Construct(n) is the set of these trees, *)
(* each a heap of its own with identities 1..n.                            *)
(***************************************************************************)
\* The objects of h moved up by k identities.
Shift(h, k) ==
    [i \in 1..Len(h) |->
        [h[i] EXCEPT !.left  = IF @ = None THEN None ELSE @ + k,
                     !.right = IF @ = None THEN None ELSE @ + k]]

RECURSIVE Construct(_, _)
Construct(cls, n) ==
    IF n = 0 THEN {<<>>}
    ELSE UNION {
        {l \o Shift(r, Len(l))
           \o <<BinaryTree(cls, value,
                           IF Len(l) = 0 THEN None ELSE Len(l),
                           IF Len(r) = 0 THEN None ELSE Len(l) + Len(r))>>
         : l \in Construct(cls, nl), r \in Construct(cls, n - 1 - nl),
           value \in Values}
        : nl \in 0..(n - 1)}

(***************************************************************************)
(* A session on node objects: the caller has constructed two trees and     *)
(* calls the methods in any order; call records the last call, its         *)
(* arguments and what it returned or raised.                               *)
(***************************************************************************)
Call(op, self, other, raised, res, node, map) ==
    [op |-> op, self |-> self, other |-> other, raised |-> raised,
     res |-> res, node |-> node, map |-> map]

NoMap == <<>>

\* The larger tree is constructed first: the methods are called with the two
\* trees in both roles, so the other order adds nothing.
Init ==
    /\ \E n1 \in 1..(MaxNodes - 1), c1 \in Classes, c2 \in Classes :
         \E n2 \in 1..(MaxNodes - n1) :
           /\ n2 <= n1
           /\ \E t1 \in Construct(c1, n1), t2 \in Construct(c2, n2) :
                 heap = t1 \o Shift(t2, n1)
    /\ call = Call("new", None, None, "", FALSE, None, NoMap)

\* The session goes on until a RuntimeError ends it.  Lazy growth has no
\* end of its own: the session stops growing nodes at MaxNodes objects.
Running == Len(heap) <= MaxNodes /\ call.raised # "RuntimeError"

\* The nodes that are nobody's child: the trees the caller constructed.
Roots(h) ==
    {n \in Nodes(h) : \A m \in Nodes(h) : h[m].left # n /\ h[m].right # n}

\* self.left
Left(self) ==
    /\ Running
    /\ \E out \in {left(heap, self, v) : v \in randint(begin, end)} :
           /\ Len(out.heap) <= MaxNodes
           /\ heap' = out.heap
           /\ call' = Call("left", self, None, out.raised, FALSE, out.node, NoMap)

\* self.right
Right(self) ==
    /\ Running
    /\ \E out \in {right(heap, self, v) : v \in randint(begin, end)} :
           /\ Len(out.heap) <= MaxNodes
           /\ heap' = out.heap
           /\ call' = Call("right", self, None, out.raised, FALSE, out.node, NoMap)

\* self == other
\* Variant: the comparison reads self.left instead of self._left.
EqualsThroughProperties(self, other) ==
    /\ Running
    /\ \E out \in {left(heap, self, v) : v \in randint(begin, end)} :
           /\ heap' = out.heap
           /\ call' = Call("eq", self, other, "",
                           __eq__(heap, self, other), None, NoMap)

Equals(self, other) ==
    /\ Running
    /\ heap' = heap
    /\ call' = Call("eq", self, other, "", __eq__(heap, self, other), None, NoMap)

\* other in self
Contains(self, other) ==
    /\ Running
    /\ \E out \in __contains__(heap, self, other, 1) :
           /\ heap' = out.heap
           /\ call' = Call("contains", self, other, out.raised, out.res, None, NoMap)

\* dict(self)
Dict(self) ==
    /\ Running
    /\ \E out \in {__iter__(heap, self, v) : v \in randint(begin, end)} :
           /\ heap' = out.heap
           /\ call' = Call("dict", self, None, "", FALSE, None, out.map)

Next ==
    \/ \E self \in Nodes(heap) : Left(self)
    \/ \E self \in Nodes(heap) : Right(self)
    \/ \E self \in Roots(heap), other \in Roots(heap) : Equals(self, other)
    \/ \E self \in Roots(heap), other \in Roots(heap) : Contains(self, other)
    \/ \E self \in Roots(heap) : Dict(self)

Spec == Init /\ [][Next]_vars

(***************************************************************************)
(* gen_tree(depth, iterable).                                              *)
(*                                                                         *)
(* The value source: a caller-supplied sequence is cycled; an empty or     *)
(* missing one (`not iterable`) is replaced by an endless stream of        *)
(* randint() draws.  pos counts the values drawn so far, and NextValues is *)
(* what next(iterable) can return then.                                    *)
(***************************************************************************)
NextValues(iterable, pos) ==
    IF iterable = <<>> THEN randint(begin, end)
    ELSE {iterable[(pos % Len(iterable)) + 1]}

\* sum(2**x for x in xrange(depth)); xrange(depth) is empty for depth <= 0.
RECURSIVE count(_)
count(depth) == IF depth <= 0 THEN 0 ELSE 2 ^ (depth - 1) + count(depth - 1)

\* izip(row[::2], row[1::2]) : the pairs (row[0], row[1]), (row[2], row[3]), ...
\* Variant: the first half of the row is paired with the second half.
PairsByHalves(row) ==
    [i \in 1..(Len(row) \div 2) |-> <<row[i], row[i + (Len(row) \div 2)]>>]

Pairs(row) ==
    [i \in 1..(Len(row) \div 2) |-> <<row[2 * i - 1], row[2 * i]>>]

(***************************************************************************)
(* One list comprehension [BinaryTree(next(iterable), left=l, right=r)     *)
(* for l, r in pairs]: st = [heap, pos, row] is the heap, the number of    *)
(* values drawn and the row built so far.  The result is the set of        *)
(* outcomes, one for each way the draws can fall.                          *)
(***************************************************************************)
RECURSIVE BuildRow(_, _, _)
BuildRow(iterable, st, pairs) ==
    IF pairs = <<>> THEN {st}
    ELSE UNION {
        BuildRow(iterable,
                 [heap |-> Append(st.heap,
                                  BinaryTree("BinaryTree", v,
                                             Head(pairs)[1], Head(pairs)[2])),
                  pos  |-> st.pos + 1,
                  row  |-> Append(st.row, NewId(st.heap))],
                 Tail(pairs))
        : v \in NextValues(iterable, st.pos)}

\* while len(row) != 1: row = [... for left, right in izip(row[::2], row[1::2])]
RECURSIVE PairUp(_, _)
PairUp(iterable, st) ==
    IF Len(st.row) = 1 THEN {st}
    ELSE UNION {PairUp(iterable, next)
                : next \in BuildRow(iterable, [st EXCEPT !.row = <<>>],
                                    Pairs(st.row))}

NoTree(pos) == [root |-> None, heap |-> <<>>, drawn |-> pos]

\* Variant: a value is drawn before count is tested.
gen_treeDrawsFirst(depth, iterable) ==
    IF count(depth) < 1 THEN {NoTree(1)}
    ELSE {[root |-> st.row[1], heap |-> st.heap, drawn |-> st.pos]
          : st \in UNION {PairUp(iterable, leaves)
                          : leaves \in BuildRow(iterable,
                                [heap |-> <<>>, pos |-> 0, row |-> <<>>],
                                [i \in 1..(2 ^ (depth - 1)) |-> <<None, None>>])}}

\* The set of results [root, heap, drawn]; root is None for `return`.
gen_tree(depth, iterable) ==
    IF count(depth) < 1 THEN {NoTree(0)}
    ELSE {[root |-> st.row[1], heap |-> st.heap, drawn |-> st.pos]
          : st \in UNION {PairUp(iterable, leaves)
                          : leaves \in BuildRow(iterable,
                                [heap |-> <<>>, pos |-> 0, row |-> <<>>],
                                [i \in 1..(2 ^ (depth - 1)) |-> <<None, None>>])}}

(***************************************************************************)
(* A call of gen_tree: the arguments are drawn first, then the call is     *)
(* made.  The iterables are the empty one (random values), every sequence  *)
(* over Values of at most MaxLen values, and the docstring's 0..6.         *)
(***************************************************************************)
Example == <<0, 1, 2, 3, 4, 5, 6>>

Iterables == UNION {[1..n -> Values] : n \in 0..MaxLen} \cup {Example}

InitGen ==
    /\ heap = <<>>
    /\ \E depth \in MinDepth..MaxDepth, iterable \in Iterables :
         call = [op |-> "args", depth |-> depth, iterable |-> iterable,
                 root |-> None, drawn |-> 0]

GenTree ==
    /\ call.op = "args"
    /\ \E out \in gen_tree(call.depth, call.iterable) :
         /\ heap' = out.heap
         /\ call' = [call EXCEPT !.op = "gen_tree", !.root = out.root,
                                 !.drawn = out.drawn]

NextGen == GenTree

SpecGen == InitGen /\ [][NextGen]_vars

(***************************************************************************)
(* What the claims are stated in: a stored tree as the set of its          *)
(* <<path, value>> pairs, a path being the sequence of turns from the root *)
(* (0 for left, 1 for right).  Two nodes carry the same tree iff these     *)
(* sets are equal.                                                         *)
(***************************************************************************)
RECURSIVE Canon(_, _)
Canon(h, n) ==
    IF n = None THEN {}
    ELSE {<< <<>>, h[n].value >>}
         \cup {<< <<0>> \o pv[1], pv[2] >> : pv \in Canon(h, h[n].left)}
         \cup {<< <<1>> \o pv[1], pv[2] >> : pv \in Canon(h, h[n].right)}

\* The node itself and its stored descendants.
RECURSIVE Reach(_, _)
Reach(h, n) ==
    IF n = None THEN {}
    ELSE {n} \cup Reach(h, h[n].left) \cup Reach(h, h[n].right)

IsAuto(h, n) == h[n].cls = "AutoBinaryTree"

IsBase(h, n) == h[n].cls = "BinaryTree"

AllBase(h, n) == \A d \in Reach(h, n) : IsBase(h, d)

Childless(h, n) == h[n].left = None /\ h[n].right = None

\* Two stored slots hold equal subtrees: both absent, or both present and
\* the same tree.
SameSlot(h, x, y) ==
    \/ x = None /\ y = None
    \/ x # None /\ y # None /\ Canon(h, x) = Canon(h, y)

\* 2^depth - 1 nodes, every path shorter than depth being a node.
PathsBelow(depth) == UNION {[1..l -> {0, 1}] : l \in 0..(depth - 1)}

\* The place of a path among the paths of its length, left to right.
RECURSIVE PathIndex(_)
PathIndex(p) ==
    IF p = <<>> THEN 0
    ELSE 2 * PathIndex(SubSeq(p, 1, Len(p) - 1)) + p[Len(p)]

\* The place of the node at path p in the order: leaf row first, then each
\* level above it, each left to right, the root last.
DrawOrder(depth, p) == (2 ^ depth - 2 ^ (Len(p) + 1)) + PathIndex(p)

(***************************************************************************)
(* C1.  For depth >= 1 and a non-empty value sequence, gen_tree returns a  *)
(* complete binary tree of 2^depth - 1 nodes in which the k-th node in the *)
(* order "leaf row left to right, then each level above it, root last"     *)
(* has value vals[k mod len(vals)]; depth 3 with 0..6 gives                *)
(* 6(left=4(left=0,right=1), right=5(left=2,right=3)).                     *)
(***************************************************************************)
ExampleTree ==
    << BinaryTree("BinaryTree", 0, None, None),
       BinaryTree("BinaryTree", 1, None, None),
       BinaryTree("BinaryTree", 2, None, None),
       BinaryTree("BinaryTree", 3, None, None),
       BinaryTree("BinaryTree", 4, 1, 2),
       BinaryTree("BinaryTree", 5, 3, 4),
       BinaryTree("BinaryTree", 6, 5, 6) >>

GenTreeFillsBottomUp ==
    /\ (call.op = "args" /\ call.depth >= 1 /\ call.iterable # <<>>)
         => gen_tree(call.depth, call.iterable) # {}
    /\ (call.op = "gen_tree" /\ call.depth >= 1 /\ call.iterable # <<>>)
         => /\ call.root # None
            /\ Len(heap) = 2 ^ call.depth - 1
            /\ Reach(heap, call.root) = Nodes(heap)
            /\ \A n \in Nodes(heap) : IsBase(heap, n)
            /\ Canon(heap, call.root) =
                 {<<p, call.iterable[(DrawOrder(call.depth, p)
                                        % Len(call.iterable)) + 1]>>
                  : p \in PathsBelow(call.depth)}
            /\ (call.depth = 3 /\ call.iterable = Example)
                 => (heap = ExampleTree /\ call.root = 7)

GenTreeExampleBuilt ==
    /\ call.op = "gen_tree"
    /\ call.depth = 3
    /\ call.iterable = Example
    /\ call.root = 7

(***************************************************************************)
(* C8.  For depth <= 0 gen_tree returns no tree, and draws no value from   *)
(* the value source.                                                       *)
(***************************************************************************)
GenTreeNothingForNoDepth ==
    (call.op = "gen_tree" /\ call.depth <= 0)
      => (call.root = None /\ call.drawn = 0 /\ heap = <<>>)

GenTreeCalledWithNoDepth ==
    /\ call.op = "gen_tree"
    /\ call.depth <= 0
    /\ call.iterable # <<>>
    /\ call.root = None

(***************************************************************************)
(* C2.  self == other is true iff the two nodes carry the same values in   *)
(* the same shape, whatever their classes: values equal, leaf status       *)
(* equal, stored left subtrees equal (both absent, or both present and the *)
(* same tree) and stored right subtrees likewise; a node equals itself,    *)
(* and the answer is the same in both argument orders.                     *)
(***************************************************************************)
EqualityIsStructural ==
    call.op = "eq" =>
      /\ call.res = (Canon(heap, call.self) = Canon(heap, call.other))
      /\ call.res =
           (/\ heap[call.self].value = heap[call.other].value
            /\ Childless(heap, call.self) = Childless(heap, call.other)
            /\ SameSlot(heap, heap[call.self].left, heap[call.other].left)
            /\ SameSlot(heap, heap[call.self].right, heap[call.other].right))
      /\ call.res = __eq__(heap, call.other, call.self)
      /\ (call.self = call.other => call.res)

EqualAcrossClasses ==
    /\ call.op = "eq"
    /\ call.self # call.other
    /\ IsBase(heap, call.self) /\ IsAuto(heap, call.other)
    /\ ~Childless(heap, call.self)
    /\ call.res

(***************************************************************************)
(* C3.  On a tree of base nodes, `other in self` returns true iff other    *)
(* equals self or the subtree at one of self's stored descendants, and it  *)
(* returns: the Null of an absent child is caught, nothing is raised.      *)
(***************************************************************************)
ContainsFindsWholeSubtrees ==
    (call.op = "contains" /\ AllBase(heap, call.self)) =>
      /\ call.raised = ""
      /\ call.res = (\E d \in Reach(heap, call.self) :
                        Canon(heap, d) = Canon(heap, call.other))

ContainsFoundBelowRoot ==
    /\ call.op = "contains"
    /\ AllBase(heap, call.self)
    /\ call.other \notin Reach(heap, call.self)
    /\ Canon(heap, call.self) # Canon(heap, call.other)
    /\ call.res

(***************************************************************************)
(* C4.  On a lazily growing node a child slot changes at most once, from   *)
(* absent to present, on the first access to it; the child made is a       *)
(* childless node of the same class with a value in [1, 100); an access    *)
(* returns the node the slot holds afterwards, so later accesses return    *)
(* the same node; it leaves the other slot and the value alone.            *)
(***************************************************************************)
FreshChild(h, parent, n) ==
    /\ h[n].cls = h[parent].cls
    /\ h[n].value \in begin..(end - 1)
    /\ Childless(h, n)

LazyAccess(slot, otherSlot) ==
    LET self == call'.self
    IN  /\ call'.raised = ""
        /\ call'.node # None
        /\ call'.node = heap'[self][slot]
        /\ heap'[self][otherSlot] = heap[self][otherSlot]
        /\ heap'[self].value = heap[self].value
        /\ IF heap[self][slot] # None
           THEN heap' = heap
           ELSE /\ call'.node = Len(heap) + 1
                /\ Len(heap') = Len(heap) + 1
                /\ FreshChild(heap', self, call'.node)
                /\ \A n \in Nodes(heap) \ {self} : heap'[n] = heap[n]

LazySlotsFillOnce ==
    [][/\ \A n \in Nodes(heap) : IsAuto(heap, n) =>
             /\ n \in Nodes(heap')
             /\ heap'[n].cls = heap[n].cls
             /\ heap'[n].value = heap[n].value
             /\ heap[n].left # None => heap'[n].left = heap[n].left
             /\ heap[n].right # None => heap'[n].right = heap[n].right
       /\ (call'.op = "left" /\ IsAuto(heap, call'.self))
             => LazyAccess("left", "right")
       /\ (call'.op = "right" /\ IsAuto(heap, call'.self))
             => LazyAccess("right", "left")
      ]_vars

\* A second access to a slot an earlier access filled.
LazyChildReturnedAgain ==
    /\ call.op = "left"
    /\ IsAuto(heap, call.self)
    /\ call.node > call.self
    /\ call.node # Len(heap)
    /\ heap[call.self].right # None

(***************************************************************************)
(* C5.  An equality test reads the stored slots only: it leaves every      *)
(* object as it was, absent slots of lazily growing nodes included.        *)
(***************************************************************************)
EqualityGrowsNothing ==
    [][call'.op = "eq" => heap' = heap]_vars

LazyTreesCompared ==
    /\ call.op = "eq"
    /\ call.self # call.other
    /\ IsAuto(heap, call.self) /\ IsAuto(heap, call.other)
    /\ heap[call.self].left = None
    /\ heap[call.other].right = None
    /\ ~Childless(heap, call.other)

(***************************************************************************)
(* C6.  dict(self) mirrors the stored tree: "value" is the node's value,   *)
(* "left" is there iff a left child is stored and is then that child's     *)
(* mapping, "right" likewise, an absent child has no key; and making it    *)
(* grows no child.                                                         *)
(***************************************************************************)
RECURSIVE Mirrors(_, _, _)
Mirrors(h, n, m) ==
    /\ DOMAIN m = {"value"}
                  \cup (IF h[n].left # None THEN {"left"} ELSE {})
                  \cup (IF h[n].right # None THEN {"right"} ELSE {})
    /\ m["value"] = h[n].value
    /\ h[n].left # None => Mirrors(h, h[n].left, m["left"])
    /\ h[n].right # None => Mirrors(h, h[n].right, m["right"])

DictMirrorsStoredTree ==
    [][call'.op = "dict"
         => (heap' = heap /\ Mirrors(heap, call'.self, call'.map))]_vars

LazyTreeSerialized ==
    /\ call.op = "dict"
    /\ IsAuto(heap, call.self)
    /\ heap[call.self].left # None
    /\ heap[call.self].right = None
    /\ DOMAIN call.map = {"value", "left"}
    /\ Childless(heap, heap[call.self].left)

(***************************************************************************)
(* C7.  On a base node, left (right) returns the stored child when there   *)
(* is one and raises Null when there is none; and whatever is called, a    *)
(* base node keeps its value and its child slots.                          *)
(***************************************************************************)
BaseAccess(slot) ==
    LET self == call'.self
    IN  IF heap[self][slot] = None
        THEN call'.raised = "Null"
        ELSE call'.raised = "" /\ call'.node = heap[self][slot]

BaseNodesNeverChange ==
    [][/\ \A n \in Nodes(heap) : IsBase(heap, n) =>
             (n \in Nodes(heap') /\ heap'[n] = heap[n])
       /\ (call'.op = "left" /\ IsBase(heap, call'.self)) => BaseAccess("left")
       /\ (call'.op = "right" /\ IsBase(heap, call'.self)) => BaseAccess("right")
      ]_vars

NullRaisedOnBaseNode ==
    /\ call.op = "left"
    /\ IsBase(heap, call.self)
    /\ call.raised = "Null"
    /\ heap[call.self].right # None

(***************************************************************************)
(* C9.  Two lazily growing nodes with equal values and no stored children  *)
(* compare equal; once a child access has grown a child on exactly one of  *)
(* them they compare unequal, in both argument orders.                     *)
(***************************************************************************)
Fresh(h, n) == IsAuto(h, n) /\ Childless(h, n)

\* n had a child grown by an access: the child is younger than n.
Grown(h, n) ==
    /\ IsAuto(h, n)
    /\ \/ h[n].left > n
       \/ h[n].right > n

LazyEqualityFollowsGrowth ==
    [][/\ (/\ call'.op = "eq"
           /\ Fresh(heap', call'.self) /\ Fresh(heap', call'.other)
           /\ heap'[call'.self].value = heap'[call'.other].value)
             => call'.res
       /\ (/\ call'.op = "eq"
           /\ heap'[call'.self].value = heap'[call'.other].value
           /\ \/ Fresh(heap', call'.self) /\ Grown(heap', call'.other)
              \/ Grown(heap', call'.self) /\ Fresh(heap', call'.other))
             => ~call'.res
       /\ (call'.op \in {"left", "right"} /\ Fresh(heap, call'.self))
             => \A b \in Nodes(heap) \ {call'.self} :
                   (Fresh(heap, b) /\ heap[b].value = heap[call'.self].value)
                     => /\ __eq__(heap, call'.self, b)
                        /\ ~__eq__(heap', call'.self, b)
                        /\ ~__eq__(heap', b, call'.self)
      ]_vars

GrownComparedWithFresh ==
    /\ call.op = "eq"
    /\ Grown(heap, call.self)
    /\ Fresh(heap, call.other)
    /\ heap[call.self].value = heap[call.other].value
    /\ ~call.res

(***************************************************************************)
(* C10.  On a lazily growing tree `other in self` is decided on the stored *)
(* children only: it returns what a base tree of the same stored shape and *)
(* values returns, and it grows no child.                                  *)
(***************************************************************************)
LazyContainsReadsStoredOnly ==
    [][(call'.op = "contains" /\ IsAuto(heap, call'.self)) =>
         /\ heap' = heap
         /\ call'.raised = ""
         /\ call'.res = (\E d \in Reach(heap, call'.self) :
                            Canon(heap, d) = Canon(heap, call'.other))
      ]_vars

====
